---- MODULE Spec2Model ----
(***************************************************************************)
(* A model of src/utils.ts of LapPrice: the CSV parser (parseCSV with its  *)
(* value normaliser cleanNumber and its regular-expression row tokenizer)  *)
(* and the aggregations getAveragePriceByCompany, getRamDistribution and   *)
(* getStats.                                                               *)
(*                                                                         *)
(* A JavaScript string is a sequence of one-character strings.  A          *)
(* JavaScript number is a record [kind, m, e]: kind "fin" is the decimal   *)
(* m * 10^e (m has no trailing zero, zero is m = 0, e = 0), kind "inf" is  *)
(* +/-Infinity by the sign of m, kind "nan" is NaN.  Decimal values are    *)
(* kept exactly; the rounding of IEEE doubles is not modelled.             *)
(***************************************************************************)
EXTENDS Integers, Sequences, FiniteSets

(***************************************************************************)
(* Bounds of the explored inputs.                                          *)
(***************************************************************************)
MaxLineLen == 4
MaxRows == 3
MaxData == 3

(***************************************************************************)
(* Characters and strings.                                                 *)
(***************************************************************************)
Quote == "\""
Comma == ","
LF == "\n"
CR == "\r"
WhiteSpace == {" ", "\t", LF, CR}
Digits == <<"0", "1", "2", "3", "4", "5", "6", "7", "8", "9">>
UpperCase == <<"A", "B", "C", "D", "E", "F", "G", "H", "I", "J", "K", "L", "M",
               "N", "O", "P", "Q", "R", "S", "T", "U", "V", "W", "X", "Y", "Z">>
LowerCase == <<"a", "b", "c", "d", "e", "f", "g", "h", "i", "j", "k", "l", "m",
               "n", "o", "p", "q", "r", "s", "t", "u", "v", "w", "x", "y", "z">>

IsDigit(c) == \E i \in 1..10 : Digits[i] = c
DigitVal(c) == (CHOOSE i \in 1..10 : Digits[i] = c) - 1

SetMin(S) == CHOOSE x \in S : \A y \in S : x <= y

\* the value a missing array element or object property reads as
undefined == <<"undefined">>

\* JavaScript truthiness of a string-or-undefined value
Truthy(val) == val /= undefined /\ val /= <<>>

\* val || dflt on a string-or-undefined value
OrElse(val, dflt) == IF Truthy(val) THEN val ELSE dflt

\* arr[idx] with a 0-based index; -1 and indices past the end read undefined
At(arr, idx) == IF idx >= 0 /\ idx < Len(arr) THEN arr[idx + 1] ELSE undefined

\* the first position from i on, going by step, that holds no white space
RECURSIVE SkipWhiteSpace(_, _, _)
SkipWhiteSpace(s, i, step) ==
    IF i >= 1 /\ i <= Len(s) /\ s[i] \in WhiteSpace
    THEN SkipWhiteSpace(s, i + step, step)
    ELSE i

\* String.prototype.trim
Trim(s) == SubSeq(s, SkipWhiteSpace(s, 1, 1), SkipWhiteSpace(s, Len(s), -1))

\* String.prototype.toLowerCase
ToLowerCase(s) ==
    [i \in 1..Len(s) |->
        IF \E k \in 1..26 : UpperCase[k] = s[i]
        THEN LowerCase[CHOOSE k \in 1..26 : UpperCase[k] = s[i]]
        ELSE s[i]]

\* String.prototype.includes
Includes(h, sub) ==
    \E k \in 0..(Len(h) - Len(sub)) : SubSeq(h, k + 1, k + Len(sub)) = sub

\* s.replace(/^"|"$/g, ''): one leading and one trailing quote are removed
StripQuotes(s) ==
    LET a == IF Len(s) > 0 /\ s[1] = Quote THEN Tail(s) ELSE s
    IN  IF Len(a) > 0 /\ a[Len(a)] = Quote THEN SubSeq(a, 1, Len(a) - 1) ELSE a

\* s.replace(/[^0-9.-]+/g, ''): only digits, dots and minus signs are kept
RECURSIVE StripNonNumeric(_)
StripNonNumeric(s) ==
    IF s = <<>> THEN <<>>
    ELSE IF IsDigit(Head(s)) \/ Head(s) = "." \/ Head(s) = "-"
         THEN <<Head(s)>> \o StripNonNumeric(Tail(s))
         ELSE StripNonNumeric(Tail(s))

\* the pieces of s, from position start on, between the one-character
\* separators at the positions in seps
RECURSIVE Pieces(_, _, _)
Pieces(s, seps, start) ==
    LET later == {i \in seps : i >= start}
    IN  IF later = {} THEN <<SubSeq(s, start, Len(s))>>
        ELSE LET j == SetMin(later)
             IN  <<SubSeq(s, start, j - 1)>> \o Pieces(s, seps, j + 1)

\* s.split(/\r?\n/): a line feed, with the carriage return before it if any
RECURSIVE SplitLines(_)
SplitLines(s) ==
    LET feeds == {i \in 1..Len(s) : s[i] = LF}
    IN  IF feeds = {} THEN <<s>>
        ELSE LET j == SetMin(feeds)
                 last == IF j > 1 /\ s[j - 1] = CR THEN j - 2 ELSE j - 1
             IN  <<SubSeq(s, 1, last)>> \o SplitLines(SubSeq(s, j + 1, Len(s)))

\* the number of quote characters in line[from..to]
QuotesIn(line, from, to) == Cardinality({k \in from..to : line[k] = Quote})

\* The positions matched by /,(?=(?:(?:[^"]*"){2})*[^"]*$)/: a comma whose
\* lookahead succeeds, that is, the rest of the line up to its end ($ without
\* the m flag) is made of pairs of quotes: it holds an even number of them.
SplitPoints(line) ==
    {i \in 1..Len(line) :
        line[i] = Comma /\ QuotesIn(line, i + 1, Len(line)) % 2 = 0}

\* line.split(/,(?=(?:(?:[^"]*"){2})*[^"]*$)/)
SplitRow(line) == Pieces(line, SplitPoints(line), 1)

\* .map(cell => cell.replace(/^"|"$/g, '').trim())
CleanCells(cells) == [k \in 1..Len(cells) |-> Trim(StripQuotes(cells[k]))]

\* .map(h => h.replace(/^"|"$/g, '').trim().toLowerCase())
CleanHeaderCells(cells) ==
    [k \in 1..Len(cells) |-> ToLowerCase(Trim(StripQuotes(cells[k])))]

(***************************************************************************)
(* Numbers.                                                                *)
(***************************************************************************)
RECURSIVE Pow10(_)
Pow10(n) == IF n <= 0 THEN 1 ELSE 10 * Pow10(n - 1)

\* the canonical record of the decimal m * 10^e
RECURSIVE Fin(_, _)
Fin(m, e) ==
    IF m = 0 THEN [kind |-> "fin", m |-> 0, e |-> 0]
    ELSE IF m % 10 = 0 THEN Fin(m \div 10, e + 1)
    ELSE [kind |-> "fin", m |-> m, e |-> e]

NaN == [kind |-> "nan", m |-> 0, e |-> 0]
Infinity(sign) == [kind |-> "inf", m |-> sign, e |-> 0]
Zero == Fin(0, 0)

\* x > 0 (false for NaN)
IsPositive(x) == x.kind /= "nan" /\ x.m > 0

\* the integer x.m * 10^(x.e - e0) of a finite x, for e0 <= x.e
Scaled(x, e0) == x.m * Pow10(x.e - e0)

MinExp(x, y) == IF x.e <= y.e THEN x.e ELSE y.e

\* x + y, x < y on finite numbers
NumAdd(x, y) ==
    LET e0 == MinExp(x, y) IN Fin(Scaled(x, e0) + Scaled(y, e0), e0)
NumLess(x, y) ==
    LET e0 == MinExp(x, y) IN Scaled(x, e0) < Scaled(y, e0)

\* the length of the longest prefix of s made of digits
RECURSIVE DigitPrefixLen(_)
DigitPrefixLen(s) ==
    IF s /= <<>> /\ IsDigit(Head(s)) THEN 1 + DigitPrefixLen(Tail(s)) ELSE 0

\* the value of a string of digits
RECURSIVE DigitsValue(_)
DigitsValue(s) ==
    IF s = <<>> THEN 0
    ELSE 10 * DigitsValue(SubSeq(s, 1, Len(s) - 1)) + DigitVal(s[Len(s)])

Drop(s, n) == SubSeq(s, n + 1, Len(s))

InfinityWord == <<"I", "n", "f", "i", "n", "i", "t", "y">>

HasSign(t) == t /= <<>> /\ (t[1] = "-" \/ t[1] = "+")
SignOf(t) == IF t /= <<>> /\ t[1] = "-" THEN -1 ELSE 1
Unsigned(t) == IF HasSign(t) THEN Tail(t) ELSE t

\* the value of an exponent part, 0 when rest does not start with one
ExponentDigits(ds, sign) ==
    sign * DigitsValue(SubSeq(ds, 1, DigitPrefixLen(ds)))
Exponent(rest) ==
    IF rest /= <<>> /\ (rest[1] = "e" \/ rest[1] = "E")
    THEN ExponentDigits(Unsigned(Tail(rest)), SignOf(Tail(rest)))
    ELSE 0

\* the length of a fraction part, the dot and the digits after it, at the
\* start of after; 0 when after does not start with a dot
DotLen(after) ==
    IF after /= <<>> /\ after[1] = "." THEN 1 + DigitPrefixLen(Tail(after))
    ELSE 0

\* the decimal literal at the start of body with intLen digits before the
\* dot and a fraction part of dotLen characters; NaN without any digit
Literal(body, sign, intLen, dotLen) ==
    IF intLen = 0 /\ dotLen <= 1 THEN NaN
    ELSE Fin(sign * DigitsValue(SubSeq(body, 1, intLen)
                                \o SubSeq(body, intLen + 2, intLen + dotLen)),
             Exponent(Drop(body, intLen + dotLen))
                - (IF dotLen > 0 THEN dotLen - 1 ELSE 0))

Mantissa(body, sign, intLen) ==
    Literal(body, sign, intLen, DotLen(Drop(body, intLen)))

UnsignedLiteral(body, sign) ==
    IF Len(body) >= 8 /\ SubSeq(body, 1, 8) = InfinityWord
    THEN Infinity(sign)
    ELSE Mantissa(body, sign, DigitPrefixLen(body))

SignedLiteral(t) == UnsignedLiteral(Unsigned(t), SignOf(t))

\* parseFloat: leading white space is skipped, then the longest prefix that is
\* a decimal literal (sign, digits, fraction, exponent) or a signed Infinity
\* is converted; NaN when there is none
parseFloat(s) == SignedLiteral(Drop(s, SkipWhiteSpace(s, 1, 1) - 1))

\* x || 0 on a number: NaN and zero both give 0
NumberOrZero(x) == IF x.kind = "nan" THEN Zero ELSE x

\* parseFloat(clean) || 0
cleanNumber(val) ==
    IF ~Truthy(val) THEN Zero
    ELSE NumberOrZero(parseFloat(StripNonNumeric(val)))

(***************************************************************************)
(* parseCSV.                                                               *)
(***************************************************************************)
\* the substrings the header cells are searched for
wCompany == <<"c", "o", "m", "p", "a", "n", "y">>
wTypename == <<"t", "y", "p", "e", "n", "a", "m", "e">>
wType == <<"t", "y", "p", "e">>
wInches == <<"i", "n", "c", "h", "e", "s">>
wScreenresolution ==
    <<"s", "c", "r", "e", "e", "n", "r", "e", "s", "o", "l", "u", "t", "i",
      "o", "n">>
wScreen == <<"s", "c", "r", "e", "e", "n">>
wCpu == <<"c", "p", "u">>
wRam == <<"r", "a", "m">>
wMemory == <<"m", "e", "m", "o", "r", "y">>
wStorage == <<"s", "t", "o", "r", "a", "g", "e">>
wGpu == <<"g", "p", "u">>
wOpsys == <<"o", "p", "s", "y", "s">>
wOs == <<"o", "s">>
wWeight == <<"w", "e", "i", "g", "h", "t">>
wPrice == <<"p", "r", "i", "c", "e">>
Unknown == <<"U", "n", "k", "n", "o", "w", "n">>

\* a findIndex that asks for the whole cell instead of a substring
findIndexExact(headerRow, subs) ==
    LET hits == {k \in 1..Len(headerRow) : headerRow[k] \in subs}
    IN  IF hits = {} THEN -1 ELSE SetMin(hits) - 1

\* headerRow.findIndex(h => h.includes(s1) || h.includes(s2)), 0-based, -1
\* when no cell matches
findIndex(headerRow, subs) ==
    LET hits == {k \in 1..Len(headerRow) :
                    \E sub \in subs : Includes(headerRow[k], sub)}
    IN  IF hits = {} THEN -1 ELSE SetMin(hits) - 1

\* the substrings that select the column of every field
FieldSubstrings ==
    [company |-> {wCompany},
     typeName |-> {wTypename, wType},
     inches |-> {wInches},
     screenResolution |-> {wScreenresolution, wScreen},
     cpu |-> {wCpu},
     ram |-> {wRam},
     memory |-> {wMemory, wStorage},
     gpu |-> {wGpu},
     opSys |-> {wOpsys, wOs},
     weight |-> {wWeight},
     price |-> {wPrice}]

\* the column index of every field
HeaderMap(headerRow) ==
    [f \in DOMAIN FieldSubstrings |-> findIndex(headerRow, FieldSubstrings[f])]

\* the check with && in place of ||
BothCriticalColumnsMissing(map) == map.price = -1 /\ map.company = -1

\* map.price === -1 || map.company === -1
CriticalColumnMissing(map) == map.price = -1 \/ map.company = -1

\* the record built from the cells of data line i
BuildLaptop(i, row, map) ==
    [id |-> i,
     company |-> OrElse(At(row, map.company), Unknown),
     typeName |-> OrElse(At(row, map.typeName), Unknown),
     inches |-> parseFloat(OrElse(At(row, map.inches), <<"0">>)),
     screenResolution |-> OrElse(At(row, map.screenResolution), <<>>),
     cpu |-> OrElse(At(row, map.cpu), <<>>),
     ram |-> cleanNumber(At(row, map.ram)),
     memory |-> OrElse(At(row, map.memory), <<>>),
     gpu |-> OrElse(At(row, map.gpu), <<>>),
     opSys |-> OrElse(At(row, map.opSys), <<>>),
     weight |-> cleanNumber(At(row, map.weight)),
     price |-> cleanNumber(At(row, map.price))]

\* laptop.price >= 0
KeepLaptopNonNegative(laptop) ==
    laptop.price.kind /= "nan" /\ laptop.price.m >= 0

\* no check of the price
KeepEveryLaptop(laptop) == TRUE

\* laptop.price > 0
KeepLaptop(laptop) == IsPositive(laptop.price)

\* laptops.push(laptop) under the check of the price
PushIfKept(laptops, laptop) ==
    IF KeepLaptop(laptop) THEN Append(laptops, laptop) ELSE laptops

\* the body of the loop with id: laptops.length + 1 in place of id: i
TryRowRenumbered(i, row, map, acc) ==
    [rows |-> Append(acc.rows, [i |-> i, row |-> row]),
     laptops |-> PushIfKept(acc.laptops,
                            BuildLaptop(Len(acc.laptops) + 1, row, map))]

\* The try block on the tokenized row of line i.  acc.rows collects the row,
\* acc.laptops the record when it is pushed.  Nothing in the block throws: a
\* missing cell reads undefined and is replaced by its default.
TryRow(i, row, map, acc) ==
    [rows |-> Append(acc.rows, [i |-> i, row |-> row]),
     laptops |-> PushIfKept(acc.laptops, BuildLaptop(i, row, map))]

\* the body of the loop on the trimmed line i: a blank line is skipped
LoopBody(i, line, map, acc) ==
    IF line = <<>> THEN acc
    ELSE TryRow(i, CleanCells(SplitRow(line)), map, acc)

\* the loop over the data lines from index i (0-based) on
RECURSIVE RowLoop(_, _, _, _)
RowLoop(lines, map, i, acc) ==
    IF i >= Len(lines) THEN acc
    ELSE RowLoop(lines, map, i + 1,
                 LoopBody(i, Trim(lines[i + 1]), map, acc))

\* What a run of parseCSV leaves: the returned array (laptops) with the
\* locals the run assigned; returnedAt is the line of the return taken.
Returned(at, lines, headerRow, map, acc) ==
    [returnedAt |-> at, lines |-> lines, headerRow |-> headerRow,
     map |-> map, rows |-> acc.rows, laptops |-> acc.laptops]

NoRows == [rows |-> <<>>, laptops |-> <<>>]

\* lines 35-77
ParseRows(lines, headerRow, map) ==
    IF CriticalColumnMissing(map)
    THEN Returned(38, lines, headerRow, map, NoRows)
    ELSE Returned(77, lines, headerRow, map, RowLoop(lines, map, 1, NoRows))

\* lines 16-33
ParseHeader(lines, headerRow) ==
    ParseRows(lines, headerRow, HeaderMap(headerRow))

\* lines 14-77
ParseLines(lines) ==
    IF Len(lines) < 2
    THEN Returned(14, lines, <<>>, HeaderMap(<<>>), NoRows)
    ELSE ParseHeader(lines, CleanHeaderCells(SplitRow(lines[1])))

parseCSV(csvText) == ParseLines(SplitLines(Trim(csvText)))

(***************************************************************************)
(* Objects used as tables, number formatting, sorting.                     *)
(*                                                                         *)
(* An object is the sequence of its own properties [key, val] in insertion *)
(* order.  The keys the aggregations insert are company names and          *)
(* formatted numbers; names that Object.prototype already defines          *)
(* ("constructor", "toString", ...) are outside the inputs explored.       *)
(***************************************************************************)
Has(obj, key) == \E k \in 1..Len(obj) : obj[k].key = key
Get(obj, key) == obj[CHOOSE k \in 1..Len(obj) : obj[k].key = key].val
Put(obj, key, val) ==
    IF Has(obj, key)
    THEN [k \in 1..Len(obj) |->
            IF obj[k].key = key THEN [key |-> key, val |-> val] ELSE obj[k]]
    ELSE Append(obj, [key |-> key, val |-> val])

\* x < y for two strings of digits without leading zeros
RECURSIVE DigitsLess(_, _)
DigitsLess(x, y) ==
    IF Len(x) /= Len(y) THEN Len(x) < Len(y)
    ELSE IF x = <<>> THEN FALSE
    ELSE IF Head(x) /= Head(y) THEN DigitVal(Head(x)) < DigitVal(Head(y))
    ELSE DigitsLess(Tail(x), Tail(y))

\* 2^32 - 2, the largest array index
MaxArrayIndex == <<"4", "2", "9", "4", "9", "6", "7", "2", "9", "4">>

\* a canonical array index: the decimal form of an integer in 0 .. 2^32 - 2
IsArrayIndex(key) ==
    /\ key /= <<>>
    /\ \A k \in 1..Len(key) : IsDigit(key[k])
    /\ (Len(key) = 1 \/ key[1] /= "0")
    /\ ~DigitsLess(MaxArrayIndex, key)

\* the keys in S, all array indices, in ascending numeric order
RECURSIVE AscendingIndices(_)
AscendingIndices(S) ==
    IF S = {} THEN <<>>
    ELSE LET least == CHOOSE x \in S : \A y \in S : ~DigitsLess(y, x)
         IN  <<least>> \o AscendingIndices(S \ {least})

\* Object.keys(obj): array-index keys in ascending numeric order, then the
\* other keys in insertion order
ObjectKeys(obj) ==
    LET keys == [k \in 1..Len(obj) |-> obj[k].key]
        IsName(key) == ~IsArrayIndex(key)
    IN  AscendingIndices({keys[k] : k \in {j \in 1..Len(obj) :
                                                IsArrayIndex(keys[j])}})
        \o SelectSeq(keys, IsName)

\* the decimal digits of n >= 0
RECURSIVE NatToString(_)
NatToString(n) ==
    IF n < 10 THEN <<Digits[n + 1]>>
    ELSE NatToString(n \div 10) \o <<Digits[(n % 10) + 1]>>

RECURSIVE Zeros(_)
Zeros(n) == IF n <= 0 THEN <<>> ELSE <<"0">> \o Zeros(n - 1)

Abs(n) == IF n < 0 THEN -n ELSE n

\* String(x), the text a number takes as a property key or in a template
\* literal.  Finite values are written without an exponent, as JavaScript
\* does for 1e-6 <= |x| < 1e21.
NumToString(x) ==
    IF x.kind = "nan" THEN <<"N", "a", "N">>
    ELSE IF x.kind = "inf"
    THEN (IF x.m < 0 THEN <<"-">> ELSE <<>>) \o InfinityWord
    ELSE LET sign == IF x.m < 0 THEN <<"-">> ELSE <<>>
             ds == NatToString(Abs(x.m))
             padded == Zeros(1 - x.e - Len(ds)) \o ds
             cut == Len(padded) + x.e
         IN  IF x.e >= 0 THEN sign \o ds \o Zeros(x.e)
             ELSE sign \o SubSeq(padded, 1, cut) \o <<".">>
                       \o SubSeq(padded, cut + 1, Len(padded))

\* parseInt(s) on a text that does not start with 0x: leading white space is
\* skipped, then a sign and the longest run of digits are converted; NaN when
\* there is no digit
parseInt(s) ==
    LET t == Drop(s, SkipWhiteSpace(s, 1, 1) - 1)
        signed == t /= <<>> /\ (t[1] = "-" \/ t[1] = "+")
        sign == IF signed /\ t[1] = "-" THEN -1 ELSE 1
        body == IF signed THEN Tail(t) ELSE t
        n == DigitPrefixLen(body)
    IN  IF n = 0 THEN NaN ELSE Fin(sign * DigitsValue(SubSeq(body, 1, n)), 0)

\* Array.prototype.sort of s with a comparator that is negative on
\* (s[i], s[j]) exactly when negative[i][j]: the sort is stable, elements that
\* compare equal keep their order
StableSort(s, negative) ==
    LET rank(i) == Cardinality({j \in 1..Len(s) :
                       \/ negative[j][i]
                       \/ (~negative[i][j] /\ j < i)})
    IN  [k \in 1..Len(s) |-> s[CHOOSE i \in 1..Len(s) : rank(i) = k - 1]]

\* Math.floor(num / den)
FloorQuotient(num, den) ==
    LET n == IF num.e >= 0 THEN Scaled(num, 0) ELSE num.m
        d == IF num.e >= 0 THEN den ELSE den * Pow10(0 - num.e)
    IN  Fin(n \div d, 0)

\* Math.round(num / den) for a finite num and an integer den > 0: the nearest
\* integer, a half rounded towards plus infinity
RoundQuotient(num, den) ==
    LET n == IF num.e >= 0 THEN Scaled(num, 0) ELSE num.m
        d == IF num.e >= 0 THEN den ELSE den * Pow10(0 - num.e)
    IN  Fin((2 * n + d) \div (2 * d), 0)

(***************************************************************************)
(* getAveragePriceByCompany.                                               *)
(***************************************************************************)
\* the forEach of lines 94-100, from record i on
RECURSIVE CompanyTotals(_, _, _)
CompanyTotals(data, i, totals) ==
    IF i > Len(data) THEN totals
    ELSE LET l == data[i]
             old == IF Has(totals, l.company) THEN Get(totals, l.company)
                    ELSE [sum |-> Zero, count |-> 0]
         IN  CompanyTotals(data, i + 1,
                Put(totals, l.company,
                    [sum |-> NumAdd(old.sum, l.price), count |-> old.count + 1]))

\* (a, b) => b.value - a.value is negative
ValueDescending(a, b) == NumLess(b.value, a.value)

getAveragePriceByCompany(data) ==
    IF Len(data) = 0 THEN <<>>
    ELSE LET companyTotals == CompanyTotals(data, 1, <<>>)
             keys == ObjectKeys(companyTotals)
             entries == [k \in 1..Len(keys) |->
                 [label |-> keys[k],
                  value |-> RoundQuotient(Get(companyTotals, keys[k]).sum,
                                          Get(companyTotals, keys[k]).count),
                  count |-> Get(companyTotals, keys[k]).count]]
         IN  StableSort(entries,
                [i \in 1..Len(keys) |-> [j \in 1..Len(keys) |->
                    ValueDescending(entries[i], entries[j])]])

(***************************************************************************)
(* getRamDistribution.                                                     *)
(***************************************************************************)
\* what a property that is not there reads as, where a number is expected
undefinedNumber == [kind |-> "undefined", m |-> 0, e |-> 0]

\* l.ram || 0
RamOrZero(ram) == IF ram.kind = "nan" \/ ram.m = 0 THEN Zero ELSE ram

\* the forEach of lines 114-117, from record i on
RECURSIVE RamCounts(_, _, _)
RamCounts(data, i, counts) ==
    IF i > Len(data) THEN counts
    ELSE LET key == NumToString(RamOrZero(data[i].ram))
             old == IF Has(counts, key) THEN Get(counts, key) ELSE 0
         IN  RamCounts(data, i + 1, Put(counts, key, old + 1))

\* ramCounts[parseInt(ram)]: the count stored under the key that the integer
\* parsed from the key formats to
RamCountLookup(ramCounts, ram) ==
    LET key == NumToString(parseInt(ram))
    IN  IF Has(ramCounts, key) THEN Fin(Get(ramCounts, key), 0) ELSE undefinedNumber

GB == <<"G", "B">>

\* parseInt(a.label) - parseInt(b.label) is negative
LabelAscending(a, b) == NumLess(parseInt(a.label), parseInt(b.label))

getRamDistribution(data) ==
    IF Len(data) = 0 THEN <<>>
    ELSE LET ramCounts == RamCounts(data, 1, <<>>)
             keys == ObjectKeys(ramCounts)
             entries == [k \in 1..Len(keys) |->
                 [label |-> keys[k] \o GB,
                  value |-> RamCountLookup(ramCounts, keys[k])]]
         IN  StableSort(entries,
                [i \in 1..Len(keys) |-> [j \in 1..Len(keys) |->
                    LabelAscending(entries[i], entries[j])]])

(***************************************************************************)
(* getStats.                                                               *)
(***************************************************************************)
NotAvailable == <<"N", "/", "A">>
null == [null |-> TRUE]

\* the forEach of line 139, from record i on
RECURSIVE CompanyCounts(_, _, _)
CompanyCounts(data, i, counts) ==
    IF i > Len(data) THEN counts
    ELSE LET key == data[i].company
             old == IF Has(counts, key) THEN Get(counts, key) ELSE 0
         IN  CompanyCounts(data, i + 1, Put(counts, key, old + 1))

\* (a, b) => companyCounts[a] > companyCounts[b] ? a : b
MorePopular(companyCounts, a, b) ==
    IF Get(companyCounts, a) > Get(companyCounts, b) THEN a ELSE b

\* keys.reduce(...) without an initial value: the accumulator starts as
\* keys[0] and meets keys[1], keys[2], ... in turn; here from keys[k] on
RECURSIVE ReduceKeys(_, _, _, _)
ReduceKeys(companyCounts, keys, k, acc) ==
    IF k > Len(keys) THEN acc
    ELSE ReduceKeys(companyCounts, keys, k + 1,
                    MorePopular(companyCounts, acc, keys[k]))

\* data.reduce((acc, curr) => acc + curr.price, 0), from record i on
RECURSIVE SumPrices(_, _, _)
SumPrices(data, i, acc) ==
    IF i > Len(data) THEN acc
    ELSE SumPrices(data, i + 1, NumAdd(acc, data[i].price))

\* data.find(l => l.price === Math.max(...prices)) || null
MostExpensive(data) ==
    LET hits == {i \in 1..Len(data) :
                    \A j \in 1..Len(data) :
                        ~NumLess(data[i].price, data[j].price)}
    IN  IF hits = {} THEN null ELSE data[SetMin(hits)]

\* avgPrice is the quotient num / den, kept as the exact fraction
getStats(data) ==
    IF Len(data) = 0
    THEN [totalLaptops |-> 0, avgPrice |-> [num |-> Zero, den |-> 1],
          mostPopularBrand |-> NotAvailable, mostExpensive |-> null]
    ELSE LET companyCounts == CompanyCounts(data, 1, <<>>)
             keys == ObjectKeys(companyCounts)
         IN  [totalLaptops |-> Len(data),
              avgPrice |-> [num |-> SumPrices(data, 1, Zero),
                            den |-> Len(data)],
              mostPopularBrand |->
                  IF Len(keys) > 0
                  THEN ReduceKeys(companyCounts, keys, 2, keys[1])
                  ELSE NotAvailable,
              mostExpensive |-> MostExpensive(data)]

(***************************************************************************)
(* The inputs explored.                                                    *)
(***************************************************************************)
\* header lines
HeaderPlain ==
    <<"C", "o", "m", "p", "a", "n", "y", ",", "I", "n", "c", "h", "e", "s",
      ",", "P", "r", "i", "c", "e">>
HeaderQuoted ==
    <<"\"", "C", "o", "m", "p", "a", "n", "y", "\"", ",", "\"", "P", "r",
      "i", "c", "e", " ", "(", "I", "N", "R", ")", "\"">>
HeaderNoCompany ==
    <<"B", "r", "a", "n", "d", ",", "I", "n", "c", "h", "e", "s", ",", "P",
      "r", "i", "c", "e">>
HeaderNoPrice ==
    <<"C", "o", "m", "p", "a", "n", "y", ",", "I", "n", "c", "h", "e", "s",
      ",", "C", "o", "s", "t">>
HeaderTwoPrices ==
    <<"O", "l", "d", " ", "P", "r", "i", "c", "e", ",", "C", "o", "m", "p",
      "a", "n", "y", ",", "P", "r", "i", "c", "e">>
HeaderTypes ==
    <<"T", "y", "p", "e", ",", "T", "y", "p", "e", "N", "a", "m", "e", ",",
      "C", "o", "m", "p", "a", "n", "y", ",", "P", "r", "i", "c", "e">>
HeaderShort ==
    <<"c", "o", "m", "p", "a", "n", "y", ",", "p", "r", "i", "c", "e">>
HeaderSwapped ==
    <<"p", "r", "i", "c", "e", ",", "c", "o", "m", "p", "a", "n", "y">>
HeaderLines ==
    {HeaderPlain, HeaderQuoted, HeaderNoCompany,
     HeaderNoPrice, HeaderTwoPrices, HeaderTypes}

\* data lines
RowDell == <<"D", "e", "l", "l", ",", "1", "5", ".", "6", ",", "1", "0", "0">>
RowLetters ==
    <<"7", ",", "a", "b", "c", ",", "\"", "1", ",", "2", "0", "0", "\"">>
RowBlank == <<" ">>
RowNegative == <<"\"", "A", ",", "B", "\"", ",", "1", "3", ",", "-", "5">>
RowShort == <<"A", "s", "u", "s">>
DataLines == {RowDell, RowLetters, RowBlank, RowNegative, RowShort}

\* the sequences of at most n elements of S
SeqsUpTo(S, n) == UNION {[1..k -> S] : k \in 0..n}

RECURSIVE Join(_, _)
Join(lines, sep) ==
    IF lines = <<>> THEN <<>>
    ELSE IF Len(lines) = 1 THEN lines[1]
    ELSE lines[1] \o sep \o Join(Tail(lines), sep)

\* how the lines are laid out: [before, between, after]
Layouts ==
    {[before |-> <<>>, between |-> <<LF>>, after |-> <<>>],
     [before |-> <<LF>>, between |-> <<CR, LF>>, after |-> <<" ", CR, LF>>]}

\* a header line and up to MaxRows data lines
TableTexts ==
    {lay.before \o Join(<<h>> \o body, lay.between) \o lay.after :
        h \in HeaderLines, body \in SeqsUpTo(DataLines, MaxRows),
        lay \in Layouts}

\* a two-column header and every data line of at most MaxLineLen characters
LineChars == {"a", "1", "-", Comma, Quote}
LineExample == <<"A", ",", "\"", "B", ",", "C", "\"", ",", "D">>
OneLineTexts ==
    {h \o <<LF>> \o line :
        h \in {HeaderShort, HeaderSwapped},
        line \in SeqsUpTo(LineChars, MaxLineLen) \cup {LineExample}}

CsvTexts == TableTexts \cup OneLineTexts

\* records as the aggregations read them: company, price and ram vary
CompanyX == <<"X">>
CompanyY == <<"Y">>
Company7 == <<"7">>
Companies == {CompanyX, CompanyY, Company7}
Prices == {Fin(100, 0), Fin(200, 0), Fin(300, 0)}
Rams == {Fin(1, 0), Fin(4, 0), Fin(8, 0), Fin(15, -1)}

MkLaptop(i, company, price, ram) ==
    [id |-> i, company |-> company, typeName |-> Unknown, inches |-> Zero,
     screenResolution |-> <<>>, cpu |-> <<>>, ram |-> ram, memory |-> <<>>,
     gpu |-> <<>>, opSys |-> <<>>, weight |-> Zero, price |-> price]

PricedData ==
    {[i \in 1..Len(s) |-> MkLaptop(i, s[i][1], s[i][2], Fin(8, 0))] :
        s \in SeqsUpTo(Companies \X Prices, MaxData)}

BrandData ==
    {[i \in 1..Len(s) |-> MkLaptop(i, s[i][1], s[i][2], Fin(8, 0))] :
        s \in SeqsUpTo(Companies \X {Fin(100, 0), Fin(200, 0)}, MaxData)}

RamData ==
    {[i \in 1..Len(s) |-> MkLaptop(i, CompanyX, Fin(100, 0), s[i])] :
        s \in SeqsUpTo(Rams, MaxData)}

(***************************************************************************)
(* The state: the call in hand (op), its argument, the locals it assigned  *)
(* and what it returned.  The functions are pure and synchronous: a call   *)
(* starts from the idle state, runs to its return, and leaves nothing      *)
(* behind once its result is taken (Return).                               *)
(***************************************************************************)
VARIABLES op, csvText, returnedAt, lines, headerRow, map, rows, laptops,
          data, aggregated, stats

vars == <<op, csvText, returnedAt, lines, headerRow, map, rows, laptops,
          data, aggregated, stats>>

NoParse ==
    /\ csvText' = <<>>
    /\ returnedAt' = 0
    /\ lines' = <<>>
    /\ headerRow' = <<>>
    /\ map' = HeaderMap(<<>>)
    /\ rows' = <<>>
    /\ laptops' = <<>>

Init ==
    /\ op = "none"
    /\ csvText = <<>>
    /\ returnedAt = 0
    /\ lines = <<>>
    /\ headerRow = <<>>
    /\ map = HeaderMap(<<>>)
    /\ rows = <<>>
    /\ laptops = <<>>
    /\ data = <<>>
    /\ aggregated = <<>>
    /\ stats = null

\* the state after parseCSV(text) has run and left r
ParseLeaves(text, r) ==
    /\ op' = "parseCSV"
    /\ csvText' = text
    /\ returnedAt' = r.returnedAt
    /\ lines' = r.lines
    /\ headerRow' = r.headerRow
    /\ map' = r.map
    /\ rows' = r.rows
    /\ laptops' = r.laptops
    /\ data' = <<>>
    /\ aggregated' = <<>>
    /\ stats' = null

ParseCSV ==
    /\ op = "none"
    /\ \E text \in CsvTexts : ParseLeaves(text, parseCSV(text))

GetAveragePriceByCompany ==
    \E d \in PricedData :
        /\ op = "none"
        /\ op' = "getAveragePriceByCompany"
        /\ data' = d
        /\ aggregated' = getAveragePriceByCompany(d)
        /\ stats' = null
        /\ NoParse

GetRamDistribution ==
    \E d \in RamData :
        /\ op = "none"
        /\ op' = "getRamDistribution"
        /\ data' = d
        /\ aggregated' = getRamDistribution(d)
        /\ stats' = null
        /\ NoParse

GetStats ==
    \E d \in BrandData :
        /\ op = "none"
        /\ op' = "getStats"
        /\ data' = d
        /\ aggregated' = <<>>
        /\ stats' = getStats(d)
        /\ NoParse

\* the caller takes the result
Return ==
    /\ op /= "none"
    /\ op' = "none"
    /\ data' = <<>>
    /\ aggregated' = <<>>
    /\ stats' = null
    /\ NoParse

Next ==
    \/ ParseCSV
    \/ GetAveragePriceByCompany
    \/ GetRamDistribution
    \/ GetStats
    \/ Return

Spec == Init /\ [][Next]_vars

(***************************************************************************)
(* What the properties below are stated with.                              *)
(***************************************************************************)
\* the lines after the header, which is line 0
NumDataLines == Len(lines) - 1

\* the cells of data line i and the number its price cell normalizes to
TokensOfLine(i) == CleanCells(SplitRow(Trim(lines[i + 1])))
PriceOfLine(i) == cleanNumber(At(TokensOfLine(i), map.price))

\* the header cells as the tokenizer cuts them
RawHeaderCells == SplitRow(lines[1])
HeaderCellsWith(word) ==
    {k \in 1..Len(RawHeaderCells) :
        Includes(ToLowerCase(RawHeaderCells[k]), word)}

\* the records of a company, how many they are, where the first one is
CompanyIndices(c) == {i \in 1..Len(data) : data[i].company = c}
CountOf(c) == Cardinality(CompanyIndices(c))
FirstIndex(c) == SetMin(CompanyIndices(c))
CompaniesOf == {data[i].company : i \in 1..Len(data)}

\* the sum of the (integer) prices of the records at the indices in S
RECURSIVE PriceSum(_)
PriceSum(S) ==
    IF S = {} THEN 0
    ELSE LET i == CHOOSE x \in S : TRUE
         IN  Scaled(data[i].price, 0) + PriceSum(S \ {i})

\* the sum of the counts of the first k entries
RECURSIVE CountSum(_)
CountSum(k) == IF k = 0 THEN 0 ELSE aggregated[k].count + CountSum(k - 1)

(***************************************************************************)
(* The properties.                                                         *)
(***************************************************************************)

\* C1: every record parseCSV returns has price > 0, and no data line whose
\* price cell normalizes to zero or a negative number, or is missing, has a
\* record in the result.
C1_PricePositive ==
    op = "parseCSV" =>
        /\ \A k \in 1..Len(laptops) :
              laptops[k].price.kind /= "nan" /\ laptops[k].price.m > 0
        /\ \A i \in 1..NumDataLines :
              ~IsPositive(PriceOfLine(i)) =>
                  \A k \in 1..Len(laptops) : laptops[k].id /= i

\* a parse that kept a record and dropped a row with a negative price and a
\* row too short to have a price cell
C1_Witness ==
    /\ op = "parseCSV"
    /\ Len(laptops) >= 1
    /\ \E i \in 1..NumDataLines : PriceOfLine(i).m < 0
    /\ \E i \in 1..NumDataLines :
          /\ Trim(lines[i + 1]) /= <<>>
          /\ At(TokensOfLine(i), map.price) = undefined

\* C2: when no header cell contains "company", or none contains "price"
\* (in any letter case), parseCSV returns the empty sequence, whatever the
\* data rows are; it returns (at line 14 or 38), it does not throw.
C2_MissingColumnEmpty ==
    (/\ op = "parseCSV"
     /\ (HeaderCellsWith(wCompany) = {} \/ HeaderCellsWith(wPrice) = {}))
    => (laptops = <<>> /\ returnedAt \in {14, 38})

\* a header without a company column, followed by a data row whose price is
\* positive, and nothing returned
C2_Witness ==
    /\ op = "parseCSV"
    /\ HeaderCellsWith(wCompany) = {}
    /\ HeaderCellsWith(wPrice) /= {}
    /\ \E i \in 1..NumDataLines : IsPositive(PriceOfLine(i))
    /\ laptops = <<>>

\* C3: with both critical columns found, the number of records is at most
\* the number of lines after the header, and equals it exactly when the price
\* cell of every one of those lines normalizes to a positive number.
C3_CountBound ==
    (op = "parseCSV" /\ returnedAt = 77) =>
        /\ Len(laptops) <= NumDataLines
        /\ (Len(laptops) = NumDataLines)
              <=> (\A i \in 1..NumDataLines : IsPositive(PriceOfLine(i)))

\* several data lines, every one kept
C3_Witness ==
    /\ op = "parseCSV"
    /\ returnedAt = 77
    /\ NumDataLines >= 2
    /\ Len(laptops) = NumDataLines

\* the commas of a line that have an even number of quotes before them
CommasOutsideQuotes(line) ==
    {i \in 1..Len(line) :
        line[i] = Comma /\ QuotesIn(line, 1, i - 1) % 2 = 0}

\* C4: every data line is cut exactly at the commas that have an even number
\* of quote characters before them, counted from the start of the line, also
\* when the line holds an odd number of quotes; A,"B,C",D gives A, B,C and D.
C4_SplitOutsideQuotes ==
    (op = "parseCSV" /\ returnedAt = 77) =>
        \A k \in 1..Len(rows) :
            LET line == Trim(lines[rows[k].i + 1])
            IN  /\ rows[k].row
                      = CleanCells(Pieces(line, CommasOutsideQuotes(line), 1))
                /\ line = LineExample =>
                      rows[k].row = <<<<"A">>, <<"B", Comma, "C">>, <<"D">>>>

\* C5: getStats names a company with the highest count, and among several
\* with that count the one met first in the records.
C5_FirstMaximalBrand ==
    (op = "getStats" /\ Len(data) > 0) =>
        LET brand == stats.mostPopularBrand
        IN  /\ brand \in CompaniesOf
            /\ \A c \in CompaniesOf :
                  /\ CountOf(c) <= CountOf(brand)
                  /\ CountOf(c) = CountOf(brand) =>
                        FirstIndex(brand) <= FirstIndex(c)

\* the ram values of the records, and the entry of a ram value
RamsOf == {data[i].ram : i \in 1..Len(data)}
EntryOf(ram) ==
    CHOOSE k \in 1..Len(aggregated) :
        aggregated[k].label = NumToString(ram) \o GB

\* C6: getRamDistribution returns one entry per distinct ram value, labelled
\* <value>GB, whose value is the number of records with that ram, the
\* entries in ascending order of the ram value, for integer and non-integer
\* ram values alike.
C6_RamDistribution ==
    op = "getRamDistribution" =>
        /\ Len(aggregated) = Cardinality(RamsOf)
        /\ \A r \in RamsOf :
              \E k \in 1..Len(aggregated) :
                  /\ aggregated[k].label = NumToString(r) \o GB
                  /\ aggregated[k].value
                        = Fin(Cardinality({i \in 1..Len(data) :
                                              data[i].ram = r}), 0)
        /\ \A r1, r2 \in RamsOf :
              NumLess(r1, r2) => EntryOf(r1) < EntryOf(r2)

\* the records X, X, Y priced 100, 200, 300
IsAverageExample ==
    /\ Len(data) = 3
    /\ <<data[1].company, data[2].company, data[3].company>>
          = <<CompanyX, CompanyX, CompanyY>>
    /\ <<data[1].price, data[2].price, data[3].price>>
          = <<Fin(100, 0), Fin(200, 0), Fin(300, 0)>>

C8_InchesNeverNaN ==
    op = "parseCSV" =>
        \A k \in 1..Len(laptops) :
            LET cell == At(TokensOfLine(laptops[k].id), map.inches)
            IN  /\ laptops[k].inches.kind /= "nan"
                /\ (~Truthy(cell) \/ parseFloat(cell).kind = "nan")
                      => laptops[k].inches = Zero

\* C9: every field is mapped to the lowest-index header cell whose
\* quote-stripped, trimmed, lower-cased text contains one of the field's
\* substrings, and to -1 when there is none; the prices of the records are
\* the values of the column so found.
C9_HeaderMatching ==
    (op = "parseCSV" /\ returnedAt /= 14) =>
        /\ \A f \in DOMAIN FieldSubstrings :
              LET hits == {k \in 1..Len(RawHeaderCells) :
                              \E sub \in FieldSubstrings[f] :
                                  Includes(ToLowerCase(Trim(StripQuotes(
                                      RawHeaderCells[k]))), sub)}
              IN  IF hits = {} THEN map[f] = -1
                  ELSE map[f] + 1 \in hits /\ \A k \in hits : map[f] + 1 <= k
        /\ \A k \in 1..Len(laptops) :
              laptops[k].price
                  = cleanNumber(At(TokensOfLine(laptops[k].id), map.price))

PriceInr == <<"P", "r", "i", "c", "e", " ", "(", "I", "N", "R", ")">>

\* the header cell Price (INR) found as the price column, and a record
\* priced from that column
C9_Witness ==
    /\ op = "parseCSV"
    /\ returnedAt = 77
    /\ Trim(StripQuotes(RawHeaderCells[map.price + 1])) = PriceInr
    /\ Len(laptops) >= 1
    /\ IsPositive(laptops[1].price)

\* C10: the id of a record is the index of its line, the header being line
\* 0 and blank lines counted; every line with a positive price has its
\* record; the ids increase strictly along the result.
C10_IdsArePositions ==
    op = "parseCSV" =>
        /\ \A k \in 1..Len(laptops) :
              LET i == laptops[k].id
              IN  /\ i \in 1..NumDataLines
                  /\ laptops[k].company
                        = OrElse(At(TokensOfLine(i), map.company), Unknown)
                  /\ laptops[k].price = PriceOfLine(i)
                  /\ \A j \in 1..(k - 1) : laptops[j].id < i
        /\ returnedAt = 77 =>
              \A i \in 1..NumDataLines :
                  IsPositive(PriceOfLine(i)) =>
                      \E k \in 1..Len(laptops) : laptops[k].id = i

\* two records with a blank line between their lines: ids 1 and 3
C10_Witness ==
    /\ op = "parseCSV"
    /\ Len(laptops) = 2
    /\ laptops[2].id > laptops[1].id + 1
    /\ Trim(lines[laptops[1].id + 2]) = <<>>

====
